---------------------------- MODULE Spec2Model ----------------------------
(***************************************************************************)
(* Model of dagen_teknisk.py: the line reconstructor                       *)
(* (concatenate_words_to_lines), the page loop (extract_lines_from_pdf),   *)
(* the structure parser (parse_pdf_structure with its nested               *)
(* end_current_section), their composition (process_pdf) and the output   *)
(* stage (main).                                                           *)
(*                                                                         *)
(* Every function has its own specification over the same variables:      *)
(* SpecLines, SpecExtract, SpecProcess and SpecMain, and for the parser    *)
(* SpecParse, SpecSections and SpecFields, which differ in the lines the   *)
(* documents are made of and in the length of the documents.               *)
(*                                                                         *)
(* A Python str is a sequence of one-character strings, so that strip,     *)
(* startswith, replace, split, join and the filename sanitizer are         *)
(* computed as Python computes them.  None is the empty sequence <<>> and  *)
(* a present value v is <<v>>.  A dict is the sequence of its (key, value) *)
(* pairs in insertion order, which is the order Python iterates it in.     *)
(* Vertical offsets are integers (pdfplumber yields floats; only their     *)
(* differences against the threshold matter).                              *)
(***************************************************************************)
EXTENDS Integers, Sequences, FiniteSets, TLC

VARIABLES
    pc,              \* position of the running function
    \* concatenate_words_to_lines
    words,           \* the words iterated so far (the argument, as read)
    lines,           \* lines
    current_line,    \* current_line
    last_top,        \* last_top (None or a number)
    \* extract_lines_from_pdf
    pdf_pages,       \* pdf.pages: the words of every page of the document
    start_page,      \* start_page
    end_page,        \* end_page
    page_number,     \* loop variable of range(start_page, end_page)
    line_data,       \* line_data
    \* parse_pdf_structure
    consumed,        \* the lines iterated so far, page by page (the argument, as read)
    line,            \* loop variable: the line just handled, stripped
    sections,        \* sections
    current_section, \* current_section (None or a Section)
    in_table,        \* in_table
    table_data,      \* table_data
    accepted,        \* history: the rows accepted by the in_table branch, in order
    \* main
    files,           \* the working directory: file name -> records
    sec_idx,         \* index of the next section of "for section in sections"
    writes,          \* history: the per-section writes <<file name, rows>>, in order
    runs,            \* number of runs of main started in this directory
    err              \* the exception that ended the run (None or its name)

lineVars    == <<words, lines, current_line, last_top>>
extractVars == <<pdf_pages, start_page, end_page, page_number, line_data>>
parseVars   == <<consumed, line, sections, current_section, in_table, table_data, accepted>>
mainVars    == <<files, sec_idx, writes, runs>>
vars        == <<pc, lineVars, extractVars, parseVars, mainVars, err>>

None == <<>>
Some(v) == <<v>>

-----------------------------------------------------------------------------
(* Python str operations on sequences of characters.                       *)

Whitespace == {" "}

Letters ==
    {"a","b","c","d","e","f","g","h","i","j","k","l","m","n","o","p","q","r",
     "s","t","u","v","w","x","y","z","A","B","C","D","E","F","G","H","I","J",
     "K","L","M","N","O","P","Q","R","S","T","U","V","W","X","Y","Z"}

Digits == {"0","1","2","3","4","5","6","7","8","9"}

\* c.isalnum()
IsAlnum(c) == c \in Letters \cup Digits

RECURSIVE LStrip(_)
LStrip(s) ==
    IF s # <<>> /\ Head(s) \in Whitespace THEN LStrip(Tail(s)) ELSE s

RECURSIVE RStrip(_)
RStrip(s) ==
    IF s # <<>> /\ s[Len(s)] \in Whitespace
    THEN RStrip(SubSeq(s, 1, Len(s) - 1))
    ELSE s

\* s.strip()
Strip(s) == RStrip(LStrip(s))

\* s.startswith(p)
StartsWith(s, p) == Len(s) >= Len(p) /\ SubSeq(s, 1, Len(p)) = p

\* p in s
Contains(s, p) ==
    \E i \in 1..(Len(s) - Len(p) + 1) : SubSeq(s, i, i + Len(p) - 1) = p

\* s.replace(old, ""): every non-overlapping occurrence of old, left to right
RECURSIVE RemoveAll(_, _)
RemoveAll(s, old) ==
    IF s = <<>> THEN <<>>
    ELSE IF StartsWith(s, old) THEN RemoveAll(SubSeq(s, Len(old) + 1, Len(s)), old)
    ELSE <<Head(s)>> \o RemoveAll(Tail(s), old)

\* the leading run of non-whitespace characters of s
RECURSIVE Token(_)
Token(s) ==
    IF s = <<>> \/ Head(s) \in Whitespace THEN <<>>
    ELSE <<Head(s)>> \o Token(Tail(s))

\* s.split(maxsplit=n): at most n splits on runs of whitespace, the remainder
\* kept verbatim (leading whitespace skipped, nothing if it is empty)
RECURSIVE SplitMax(_, _)
SplitMax(s, n) ==
    LET t == LStrip(s)
        tok == Token(t)
    IN  IF t = <<>> THEN <<>>
        ELSE IF n = 0 THEN <<t>>
        ELSE <<tok>> \o SplitMax(SubSeq(t, Len(tok) + 1, Len(t)), n - 1)

\* sep.join(parts)
RECURSIVE Join(_, _)
Join(parts, sep) ==
    IF parts = <<>> THEN <<>>
    ELSE IF Len(parts) = 1 THEN parts[1]
    ELSE parts[1] \o sep \o Join(Tail(parts), sep)

\* the concatenation of a sequence of sequences
RECURSIVE Flatten(_)
Flatten(ss) == IF ss = <<>> THEN <<>> ELSE Head(ss) \o Flatten(Tail(ss))

Abs(x) == IF x < 0 THEN -x ELSE x

Max(a, b) == IF a >= b THEN a ELSE b

-----------------------------------------------------------------------------
(* concatenate_words_to_lines                                              *)

\* the threshold of abs(word['top'] - last_top) > 5
LineThreshold == 5

MaxWords == 3
MaxTop == 11

WordTexts == {<<"a">>, <<"b", "c">>}

\* the words cropped_page.extract_words() can yield: text and vertical offset
Word == [text : WordTexts, top : 0..MaxTop]

\* ' '.join([w['text'] for w in current_line])
LineText(ws) == Join([i \in 1..Len(ws) |-> ws[i].text], <<" ">>)

\* the test with >= in place of >
StartsNewLineAtThreshold(st, word) ==
    st.last_top = None \/ Abs(word.top - st.last_top[1]) >= LineThreshold

\* if last_top is None or abs(word['top'] - last_top) > 5
StartsNewLine(st, word) ==
    st.last_top = None \/ Abs(word.top - st.last_top[1]) > LineThreshold

\* the loop body with the marker moved to every word read
ConcatStepMarkerFollows(st, word) ==
    IF StartsNewLine(st, word)
    THEN [lines |-> IF st.current_line # <<>>
                    THEN Append(st.lines, LineText(st.current_line))
                    ELSE st.lines,
          current_line |-> <<word>>,
          last_top |-> Some(word.top)]
    ELSE [st EXCEPT !.current_line = Append(st.current_line, word),
                    !.last_top = Some(word.top)]

\* one iteration of "for word in words"
ConcatStep(st, word) ==
    IF StartsNewLine(st, word)
    THEN [lines |-> IF st.current_line # <<>>
                    THEN Append(st.lines, LineText(st.current_line))
                    ELSE st.lines,
          current_line |-> <<word>>,
          last_top |-> Some(word.top)]
    ELSE [st EXCEPT !.current_line = Append(st.current_line, word)]

\* the return without the flush of the buffer
ConcatFlushDropsBuffer(st) == st.lines

\* the flush after the loop
ConcatFlush(st) ==
    IF st.current_line # <<>>
    THEN Append(st.lines, LineText(st.current_line))
    ELSE st.lines

ConcatInit == [lines |-> <<>>, current_line |-> <<>>, last_top |-> None]

RECURSIVE ConcatLoop(_, _)
ConcatLoop(st, ws) ==
    IF ws = <<>> THEN st ELSE ConcatLoop(ConcatStep(st, Head(ws)), Tail(ws))

\* the whole function
ConcatenateWordsToLines(ws) == ConcatFlush(ConcatLoop(ConcatInit, ws))

ConcatState == [lines |-> lines, current_line |-> current_line, last_top |-> last_top]

\* the values every specification gives the variables of the other functions
IdleLines == words = <<>> /\ lines = <<>> /\ current_line = <<>> /\ last_top = None

IdleExtract ==
    /\ pdf_pages = <<>>
    /\ start_page = 0
    /\ end_page = 0
    /\ page_number = 0
    /\ line_data = <<>>

IdleParse ==
    /\ consumed = <<>>
    /\ line = <<>>
    /\ sections = <<>>
    /\ current_section = None
    /\ in_table = FALSE
    /\ table_data = <<>>
    /\ accepted = <<>>

IdleMain == files = <<>> /\ sec_idx = 0 /\ writes = <<>> /\ runs = 0

InitLines ==
    /\ pc = "concat_loop"
    /\ words = <<>>
    /\ lines = ConcatInit.lines
    /\ current_line = ConcatInit.current_line
    /\ last_top = ConcatInit.last_top
    /\ IdleExtract /\ IdleParse /\ IdleMain
    /\ err = None

\* for word in words: ... (the next word of the argument is any Word)
ConcatWord ==
    /\ pc = "concat_loop"
    /\ Len(words) < MaxWords
    /\ \E word \in Word :
        LET st == ConcatStep(ConcatState, word)
        IN  /\ words' = Append(words, word)
            /\ lines' = st.lines
            /\ current_line' = st.current_line
            /\ last_top' = st.last_top
    /\ UNCHANGED <<pc, extractVars, parseVars, mainVars, err>>

\* the argument is exhausted: flush and return lines
ConcatReturn ==
    /\ pc = "concat_loop"
    /\ lines' = ConcatFlush(ConcatState)
    /\ pc' = "concat_done"
    /\ UNCHANGED <<words, current_line, last_top, extractVars, parseVars, mainVars, err>>

NextLines == ConcatWord \/ ConcatReturn

SpecLines == InitLines /\ [][NextLines]_vars

-----------------------------------------------------------------------------
(* Claims about concatenate_words_to_lines (specification SpecLines).      *)

\* the word the step just read
LastWord == words'[Len(words')]

\* a step of the loop that reads the word following a word that started a line
SecondWordStep(d) ==
    /\ pc = "concat_loop" /\ pc' = "concat_loop"
    /\ Len(words') = Len(words) + 1
    /\ Len(current_line) = 1
    /\ Abs(LastWord.top - current_line[1].top) = d

OnNewLine ==
    /\ current_line' = <<LastWord>>
    /\ lines' = Append(lines, LineText(current_line))

OnSameLine ==
    /\ current_line' = Append(current_line, LastWord)
    /\ lines' = lines

\* C2 as stated: after a word that starts a line, a word whose vertical offset
\* differs by exactly the threshold (5) starts a different line, and a word
\* whose offset differs by one less (4) is placed on the same line.
C2_Original ==
    [][/\ SecondWordStep(LineThreshold) => OnNewLine
       /\ SecondWordStep(LineThreshold - 1) => OnSameLine]_vars

\* C2 amended: after a word that starts a line, a word whose vertical offset
\* differs by exactly the threshold (5) is placed on the same line, as is a
\* word whose offset differs by 4; only a difference above the threshold
\* (6) starts a different line.
C2_Threshold ==
    [][/\ SecondWordStep(LineThreshold) => OnSameLine
       /\ SecondWordStep(LineThreshold - 1) => OnSameLine
       /\ SecondWordStep(LineThreshold + 1) => OnNewLine]_vars

\* two words exactly the threshold apart were put on one line
C2_Witness ==
    /\ pc = "concat_loop"
    /\ Len(words) = 2
    /\ Abs(words[2].top - words[1].top) = LineThreshold
    /\ current_line = words
    /\ lines = <<>>

\* the texts of the words joined into an emitted line (a word's text holds no
\* whitespace)
TextsOf(l) == SplitMax(l, Len(l))

\* the number of words in the emitted lines before the k-th
RECURSIVE WordsBefore(_)
WordsBefore(k) ==
    IF k <= 1 THEN 0 ELSE WordsBefore(k - 1) + Len(TextsOf(lines[k - 1]))

\* the position in the input of the first word of the k-th line; for
\* k = Len(lines) + 1, of the first word not yet emitted
FirstOf(k) == WordsBefore(k) + 1

\* the positions in the input of the words of the k-th emitted line
WordsOfLine(k) == FirstOf(k)..(FirstOf(k + 1) - 1)

\* C16: the vertical marker is the offset of the first word of the current
\* line, later words of the line do not move it: every word of a line, emitted
\* or still in the buffer, is within the threshold (5) of the line's first
\* word, and the first word of the following line is more than the threshold
\* away from the first word of the line before it.
C16_FirstWordMarker ==
    /\ pc = "concat_loop" =>
        /\ current_line = <<>> => last_top = None
        /\ current_line # <<>> => last_top = Some(current_line[1].top)
        /\ \A i \in 1..Len(current_line) :
            Abs(current_line[i].top - current_line[1].top) <= LineThreshold
    /\ \A k \in 1..Len(lines) :
        /\ WordsOfLine(k) # {}
        /\ FirstOf(k + 1) <= Len(words) + 1
        /\ \A i \in WordsOfLine(k) :
            Abs(words[i].top - words[FirstOf(k)].top) <= LineThreshold
        /\ FirstOf(k + 1) <= Len(words) =>
            Abs(words[FirstOf(k + 1)].top - words[FirstOf(k)].top) > LineThreshold

\* words at the offsets 0, 4 and 8 gave a line of two words and a line of one
C16_Witness ==
    /\ pc = "concat_done"
    /\ Len(words) = 3
    /\ words[1].top = 0 /\ words[2].top = 4 /\ words[3].top = 8
    /\ Len(lines) = 2
    /\ lines[1] = LineText(<<words[1], words[2]>>)
    /\ lines[2] = LineText(<<words[3]>>)

\* the texts of the words of the emitted lines, in order
EmittedTexts == Flatten([k \in 1..Len(lines) |-> TextsOf(lines[k])])

\* the texts of a sequence of words
WordTextsOf(ws) == [i \in 1..Len(ws) |-> ws[i].text]

\* C17: no word is lost, duplicated or moved: no emitted line is empty, there
\* are at most as many lines as words, the words of the emitted lines followed
\* by those in the buffer are the words read, in the order read, and at the
\* end the words of the emitted lines are all the words of the input, with no
\* line exactly when there was no word.
C17_WordsPreserved ==
    /\ \A k \in 1..Len(lines) : lines[k] # <<>> /\ TextsOf(lines[k]) # <<>>
    /\ Len(lines) <= Len(words)
    /\ pc = "concat_loop" =>
        EmittedTexts \o WordTextsOf(current_line) = WordTextsOf(words)
    /\ pc = "concat_done" =>
        /\ EmittedTexts = WordTextsOf(words)
        /\ (lines = <<>>) <=> (words = <<>>)

\* the last two of three words were in the buffer when the input ended and
\* were emitted as the last line
C17_Witness ==
    /\ pc = "concat_done"
    /\ Len(words) = 3
    /\ words[1].top = 0 /\ words[2].top = 6 /\ words[3].top = 6
    /\ current_line = <<words[2], words[3]>>
    /\ lines = <<LineText(<<words[1]>>), LineText(<<words[2], words[3]>>)>>

-----------------------------------------------------------------------------
(* extract_lines_from_pdf                                                  *)

MaxPages == 3
MaxRequest == 4
NegRequest == 2

\* argparse's default for --end_page
EndPageUnset == -1

\* end_page = max(1, total_pages - 3)
TermsPages == 3

W(t, y) == [text |-> t, top |-> y]

\* the words of a page below the crop line, as extract_words() yields them:
\* none, or three words
PageChoices == {<<>>, <<W(<<"a">>, 0), W(<<"b", "c">>, 5), W(<<"a">>, 11)>>}

\* len(pdf.pages)
total_pages == Len(pdf_pages)

InitExtract ==
    /\ pc = "extract_open"
    /\ \E n \in 1..MaxPages : pdf_pages \in [1..n -> PageChoices]
    /\ start_page \in (-NegRequest)..MaxRequest
    /\ end_page \in {EndPageUnset} \cup 0..MaxRequest
    /\ page_number = 0
    /\ line_data = <<>>
    /\ IdleLines /\ IdleParse /\ IdleMain
    /\ err = None

\* line_data = {}; open the document; adjust end_page; enter the loop
ExtractOpen ==
    /\ pc = "extract_open"
    /\ end_page' = IF end_page = EndPageUnset
                   THEN Max(1, total_pages - TermsPages)
                   ELSE end_page
    /\ page_number' = start_page
    /\ line_data' = <<>>
    /\ pc' = "extract_loop"
    /\ UNCHANGED <<pdf_pages, start_page, lineVars, parseVars, mainVars, err>>

\* a page outside the document handled as a failure instead of skipped
ExtractSkipAborts ==
    /\ pc = "extract_loop"
    /\ page_number < end_page
    /\ page_number >= total_pages
    /\ err' = Some("IndexError")
    /\ pc' = "extract_raised"
    /\ UNCHANGED <<extractVars, lineVars, parseVars, mainVars>>

\* if page_number >= total_pages: print(...); continue
ExtractSkip ==
    /\ pc = "extract_loop"
    /\ page_number < end_page
    /\ page_number >= total_pages
    /\ page_number' = page_number + 1
    /\ UNCHANGED <<pc, pdf_pages, start_page, end_page, line_data,
                   lineVars, parseVars, mainVars, err>>

\* pdf.pages[page_number] of a Python list: a negative index counts from the end
PageIndex(n) == IF n < 0 THEN total_pages + n + 1 ELSE n + 1

\* page = pdf.pages[page_number]; ...; line_data[page_number] = lines
ExtractPage ==
    /\ pc = "extract_loop"
    /\ page_number < end_page
    /\ page_number < total_pages
    /\ PageIndex(page_number) >= 1
    /\ line_data' = Append(line_data,
                           <<page_number,
                             ConcatenateWordsToLines(pdf_pages[PageIndex(page_number)])>>)
    /\ page_number' = page_number + 1
    /\ UNCHANGED <<pc, pdf_pages, start_page, end_page, lineVars, parseVars, mainVars, err>>

\* pdf.pages[page_number] with page_number < -total_pages raises IndexError
ExtractRaise ==
    /\ pc = "extract_loop"
    /\ page_number < end_page
    /\ page_number < total_pages
    /\ PageIndex(page_number) < 1
    /\ err' = Some("IndexError")
    /\ pc' = "extract_raised"
    /\ UNCHANGED <<extractVars, lineVars, parseVars, mainVars>>

\* range(start_page, end_page) is exhausted: return line_data
ExtractReturn ==
    /\ pc = "extract_loop"
    /\ page_number >= end_page
    /\ pc' = "extract_done"
    /\ UNCHANGED <<extractVars, lineVars, parseVars, mainVars, err>>

NextExtract == ExtractOpen \/ ExtractSkip \/ ExtractPage \/ ExtractRaise \/ ExtractReturn

SpecExtract == InitExtract /\ [][NextExtract]_vars

-----------------------------------------------------------------------------
(* Claims about extract_lines_from_pdf (specification SpecExtract).        *)

\* the entries line_data holds for page p
EntriesOf(p) == {i \in 1..Len(line_data) : line_data[i][1] = p}

\* C3: for caller-specified start_page <= end_page, both inside the document,
\* the returned line_data has exactly one entry for every page of the
\* inclusive range start_page..end_page, the page end_page included.
C3_InclusiveRange ==
    (/\ pc = "extract_done"
     /\ 0 <= start_page /\ start_page <= end_page /\ end_page < total_pages)
    => /\ \A p \in start_page..end_page : Cardinality(EntriesOf(p)) = 1
       /\ Len(line_data) = end_page - start_page + 1

\* the pages the loop has handled so far
Handled ==
    IF pc \in {"extract_loop", "extract_raised", "extract_done"}
    THEN start_page..(page_number - 1)
    ELSE {}

\* C4: a requested page index >= the page count is skipped without aborting:
\* the run raises nothing there (the only raise is at a negative index below
\* -total_pages), no entry is recorded for such a page, every handled page
\* inside the document has its entry, holding the lines of that page, the
\* entries are in ascending page order, and the loop ends only after the
\* whole request was handled.
C4_SkipOutOfRange ==
    /\ err # None => page_number < 0
    /\ \A p \in Handled :
        /\ p >= total_pages => EntriesOf(p) = {}
        /\ p < total_pages =>
            \E i \in 1..Len(line_data) :
                /\ EntriesOf(p) = {i}
                /\ line_data[i][2] = ConcatenateWordsToLines(pdf_pages[PageIndex(p)])
    /\ \A i, j \in 1..Len(line_data) : i < j => line_data[i][1] < line_data[j][1]
    /\ pc = "extract_done" => page_number >= end_page

\* a run that recorded a page, skipped a later one and returned
C4_Witness ==
    /\ pc = "extract_done"
    /\ err = None
    /\ line_data # <<>>
    /\ start_page < total_pages
    /\ end_page > total_pages + 1

-----------------------------------------------------------------------------
(* parse_pdf_structure                                                     *)

\* the literals of the parser
S_JobbNavn == <<"J","o","b","b"," ","n","a","v","n",":">>
S_StartDato == <<"S","t","a","r","t"," ","d","a","t","o">>
S_ReturDato == <<"R","e","t","u","r"," ","d","a","t","o">>
S_Brukerdager == <<"B","r","u","k","e","r","d","a","g","e","r">>
S_TotalUtstyr == <<"T","o","t","a","l"," ","u","t","s","t","y","r",":">>
S_TotalEksMva == <<"T","o","t","a","l"," ","e","k","s",".","m","v","a">>
S_Pos == <<"P","o","s">>
S_Antall == <<"A","n","t","a","l","l">>
S_Navn == <<"N","a","v","n">>

\* the dict a section-start line creates ('finalized' is absent: get() gives False)
NewSection(name) ==
    [section_name |-> name,
     start_date |-> <<>>,
     return_date |-> <<>>,
     brukerdager |-> <<>>,
     tables |-> <<>>,
     totals |-> <<>>,
     finalized |-> FALSE]

\* for s in sections: s['finalized'] = True
MarkFinalized(ss) == [i \in 1..Len(ss) |-> [ss[i] EXCEPT !.finalized = TRUE]]

\* the pending rows stored as a table also when there are none
WithPendingTableAlways(section, rows) == [section EXCEPT !.tables = Append(@, rows)]

\* the pending rows discarded instead of stored
WithPendingTableDropped(section, rows) == section

\* if table_data: current_section['tables'].append(pd.DataFrame(table_data, ...))
\* (the DataFrame holds a copy of the rows)
WithPendingTable(section, rows) ==
    IF rows # <<>>
    THEN [section EXCEPT !.tables = Append(@, rows)]
    ELSE section

\* the parser's variables as one value
ParserInit ==
    [sections |-> <<>>, current_section |-> None, in_table |-> FALSE, table_data |-> <<>>]

\* end_current_section() without the reset of in_table
EndCurrentSectionKeepsTable(st) ==
    [sections |->
        IF st.current_section # None /\ ~st.current_section[1].finalized
        THEN MarkFinalized(Append(st.sections,
                                  WithPendingTable(st.current_section[1], st.table_data)))
        ELSE st.sections,
     current_section |-> None,
     in_table |-> st.in_table,
     table_data |-> <<>>]

\* the reset of end_current_section() without the append of the open section
EndCurrentSectionDropsSection(st) ==
    [sections |-> st.sections,
     current_section |-> None,
     in_table |-> FALSE,
     table_data |-> <<>>]

\* end_current_section()
EndCurrentSection(st) ==
    [sections |->
        IF st.current_section # None /\ ~st.current_section[1].finalized
        THEN MarkFinalized(Append(st.sections,
                                  WithPendingTable(st.current_section[1], st.table_data)))
        ELSE st.sections,
     current_section |-> None,
     in_table |-> FALSE,
     table_data |-> <<>>]

\* line.startswith("Jobb navn:")
IsSectionStart(l) == StartsWith(l, S_JobbNavn)

\* line.startswith("Pos") and "Antall" in line and "Navn" in line
IsTableHeader(l) ==
    StartsWith(l, S_Pos) /\ Contains(l, S_Antall) /\ Contains(l, S_Navn)

\* line.replace(prefix, "").strip()
ValueAfter(l, prefix) == Strip(RemoveAll(l, prefix))

\* the section-start branch without its call of end_current_section()
OpenSectionNoClose(st, l) ==
    [st EXCEPT
        !.current_section = Some(NewSection(ValueAfter(l, S_JobbNavn))),
        !.in_table = FALSE,
        !.table_data = <<>>]

\* the branch of a section-start line
OpenSection(st, l) ==
    [EndCurrentSection(st) EXCEPT
        !.current_section = Some(NewSection(ValueAfter(l, S_JobbNavn)))]

\* the table-header branch without the flush of the pending rows
OpenTableKeepsRows(st) == [st EXCEPT !.in_table = TRUE]

\* the branch of a table-header line
OpenTable(st) ==
    [st EXCEPT
        !.current_section = Some(WithPendingTable(st.current_section[1], st.table_data)),
        !.table_data = <<>>,
        !.in_table = TRUE]

\* a short line stored as a row of its own
ContinueRowAsNewRow(rows, l) == Append(rows, <<<<>>, <<>>, Strip(l)>>)

\* if table_data: table_data[-1][-1] += f" {line.strip()}"
ContinueRow(rows, l) ==
    IF rows # <<>>
    THEN [rows EXCEPT ![Len(rows)][3] = @ \o <<" ">> \o Strip(l)]
    ELSE rows

\* the branch "elif in_table"
TableLine(st, l) ==
    LET split_line == SplitMax(l, 2)
    IN  IF Len(split_line) = 3
        THEN [st EXCEPT !.table_data = Append(@, split_line)]
        ELSE [st EXCEPT !.table_data = ContinueRow(@, l)]

SetField(st, f, v) == [st EXCEPT !.current_section[1][f] = v]

SetTotal(st, k, v) ==
    [st EXCEPT !.current_section[1].totals = (k :> v) @@ @]

\* the rules with the table-header rule applied also when no section is open
ParseStrippedHeaderAnywhere(st, l) ==
    IF IsSectionStart(l) THEN OpenSection(st, l)
    ELSE IF st.current_section # None THEN
        IF StartsWith(l, S_StartDato)
            THEN SetField(st, "start_date", ValueAfter(l, S_StartDato))
        ELSE IF StartsWith(l, S_ReturDato)
            THEN SetField(st, "return_date", ValueAfter(l, S_ReturDato))
        ELSE IF StartsWith(l, S_Brukerdager)
            THEN SetField(st, "brukerdager", ValueAfter(l, S_Brukerdager))
        ELSE IF StartsWith(l, S_TotalUtstyr)
            THEN SetTotal(st, "total_utstyr", ValueAfter(l, S_TotalUtstyr))
        ELSE IF StartsWith(l, S_TotalEksMva)
            THEN SetTotal(st, "total_eks_mva", ValueAfter(l, S_TotalEksMva))
        ELSE IF IsTableHeader(l) THEN OpenTable(st)
        ELSE IF st.in_table THEN TableLine(st, l)
        ELSE st
    ELSE IF IsTableHeader(l) THEN [st EXCEPT !.in_table = TRUE]
    ELSE IF st.in_table THEN TableLine(st, l)
    ELSE st

\* the rules with the in_table rule tried before the metadata and totals rules
ParseStrippedTableFirst(st, l) ==
    IF IsSectionStart(l) THEN OpenSection(st, l)
    ELSE IF st.current_section # None THEN
        IF st.in_table /\ ~IsTableHeader(l) THEN TableLine(st, l)
        ELSE IF StartsWith(l, S_StartDato)
            THEN SetField(st, "start_date", ValueAfter(l, S_StartDato))
        ELSE IF StartsWith(l, S_ReturDato)
            THEN SetField(st, "return_date", ValueAfter(l, S_ReturDato))
        ELSE IF StartsWith(l, S_Brukerdager)
            THEN SetField(st, "brukerdager", ValueAfter(l, S_Brukerdager))
        ELSE IF StartsWith(l, S_TotalUtstyr)
            THEN SetTotal(st, "total_utstyr", ValueAfter(l, S_TotalUtstyr))
        ELSE IF StartsWith(l, S_TotalEksMva)
            THEN SetTotal(st, "total_eks_mva", ValueAfter(l, S_TotalEksMva))
        ELSE IF IsTableHeader(l) THEN OpenTable(st)
        ELSE st
    ELSE st

\* the body of "for line in lines", on the stripped line
ParseStripped(st, l) ==
    IF IsSectionStart(l) THEN OpenSection(st, l)
    ELSE IF st.current_section # None THEN
        IF StartsWith(l, S_StartDato)
            THEN SetField(st, "start_date", ValueAfter(l, S_StartDato))
        ELSE IF StartsWith(l, S_ReturDato)
            THEN SetField(st, "return_date", ValueAfter(l, S_ReturDato))
        ELSE IF StartsWith(l, S_Brukerdager)
            THEN SetField(st, "brukerdager", ValueAfter(l, S_Brukerdager))
        ELSE IF StartsWith(l, S_TotalUtstyr)
            THEN SetTotal(st, "total_utstyr", ValueAfter(l, S_TotalUtstyr))
        ELSE IF StartsWith(l, S_TotalEksMva)
            THEN SetTotal(st, "total_eks_mva", ValueAfter(l, S_TotalEksMva))
        ELSE IF IsTableHeader(l) THEN OpenTable(st)
        ELSE IF st.in_table THEN TableLine(st, l)
        ELSE st
    ELSE st

\* line = line.strip(); if ... elif ...
ParseStep(st, raw) == ParseStripped(st, Strip(raw))

\* the line is handled by the in_table branch
ReachesTable(st, l) ==
    /\ ~IsSectionStart(l)
    /\ st.current_section # None
    /\ ~StartsWith(l, S_StartDato)
    /\ ~StartsWith(l, S_ReturDato)
    /\ ~StartsWith(l, S_Brukerdager)
    /\ ~StartsWith(l, S_TotalUtstyr)
    /\ ~StartsWith(l, S_TotalEksMva)
    /\ ~IsTableHeader(l)
    /\ st.in_table

\* history: the rows the in_table branch accepted, a continuation applied to
\* the row it extends
AcceptedStep(st, acc, raw) ==
    LET l == Strip(raw)
    IN  IF ~ReachesTable(st, l) THEN acc
        ELSE IF Len(SplitMax(l, 2)) = 3 THEN Append(acc, SplitMax(l, 2))
        ELSE IF st.table_data # <<>>
             THEN [acc EXCEPT ![Len(acc)][3] = @ \o <<" ">> \o l]
             ELSE acc

RECURSIVE ParseLines(_, _)
ParseLines(st, ls) ==
    IF ls = <<>> THEN st ELSE ParseLines(ParseStep(st, Head(ls)), Tail(ls))

\* the pages parsed with the table closed at the start of every page
RECURSIVE ParsePagesClosingTable(_, _)
ParsePagesClosingTable(st, d) ==
    IF d = <<>> THEN st
    ELSE ParsePagesClosingTable(
            ParseLines([st EXCEPT !.in_table = FALSE, !.table_data = <<>>], Head(d)[2]),
            Tail(d))

\* for page_number, lines in line_data.items(): for line in lines: ...
RECURSIVE ParsePages(_, _)
ParsePages(st, d) ==
    IF d = <<>> THEN st ELSE ParsePages(ParseLines(st, Head(d)[2]), Tail(d))

\* the whole function: the loops, the last end_current_section(), return sections
ParsePdfStructure(d) == EndCurrentSection(ParsePages(ParserInit, d)).sections

RECURSIVE AcceptedLines(_, _, _)
AcceptedLines(st, acc, ls) ==
    IF ls = <<>> THEN acc
    ELSE AcceptedLines(ParseStep(st, Head(ls)), AcceptedStep(st, acc, Head(ls)), Tail(ls))

\* the lines of a line_data in iteration order
AllLines(d) == Flatten([i \in 1..Len(d) |-> d[i][2]])

\* history of a whole parse
AcceptedRows(d) == AcceptedLines(ParserInit, <<>>, AllLines(d))

\* the lines of the documents parsed
L_Alpha == S_JobbNavn \o <<" ","A","l","p","h","a">>
L_Beta == S_JobbNavn \o <<" ","B","e","t","a">>
L_Start == S_StartDato \o <<" ","0","1",".","0","1",".","2","0","2","5">>
L_Retur == S_ReturDato \o <<" ","0","2",".","0","1",".","2","0","2","5">>
L_Bruker == S_Brukerdager \o <<" ","3">>
L_TotalU == S_TotalUtstyr \o <<" ","1","0","0">>
L_TotalE == S_TotalEksMva \o <<" ","8","0">>
L_Header == <<"P","o","s"," ","A","n","t","a","l","l"," ","N","a","v","n">>
L_Row1 == <<"1"," ","2"," ","C","a","b","l","e">>
L_Row2 == <<"2"," ","1"," ","M","i","x","e","r">>
L_Row3 == <<"3"," ","4"," ","L","i","g","h","t">>
L_RowWide == <<" ","5"," "," ","1"," ","M","i","x","e","r"," "," ","X","L"," ">>
L_Cont == <<"e","x","t","r","a"," ","t","e","x","t">>
L_Blank == <<>>

MaxLines == 5

\* the lines a page can hold
LineVocab ==
    {L_Alpha, L_Beta, L_Start, L_TotalU, L_Header, L_Row1, L_RowWide, L_Cont, L_Blank}

ParserState ==
    [sections |-> sections, current_section |-> current_section,
     in_table |-> in_table, table_data |-> table_data]

InitParse ==
    /\ pc = "parse_loop"
    /\ consumed = <<>>
    /\ line = <<>>
    /\ sections = ParserInit.sections
    /\ current_section = ParserInit.current_section
    /\ in_table = ParserInit.in_table
    /\ table_data = ParserInit.table_data
    /\ accepted = <<>>
    /\ IdleLines /\ IdleExtract /\ IdleMain
    /\ err = None

\* one iteration of the loops over line_data (the next line of the argument
\* is any line of LineVocab, on the current page or the next)
ParseLine ==
    /\ pc = "parse_loop"
    /\ Len(consumed) < MaxLines
    /\ \E raw \in LineVocab :
        LET st == ParseStep(ParserState, raw)
        IN  /\ consumed' = Append(consumed, raw)
            /\ line' = Strip(raw)
            /\ sections' = st.sections
            /\ current_section' = st.current_section
            /\ in_table' = st.in_table
            /\ table_data' = st.table_data
            /\ accepted' = AcceptedStep(ParserState, accepted, raw)
    /\ UNCHANGED <<pc, lineVars, extractVars, mainVars, err>>

\* the argument is exhausted: end_current_section(); return sections
ParseReturn ==
    /\ pc = "parse_loop"
    /\ LET st == EndCurrentSection(ParserState)
       IN  /\ sections' = st.sections
           /\ current_section' = st.current_section
           /\ in_table' = st.in_table
           /\ table_data' = st.table_data
    /\ pc' = "parse_done"
    /\ UNCHANGED <<consumed, line, accepted, lineVars, extractVars, mainVars, err>>

NextParse == ParseLine \/ ParseReturn

SpecParse == InitParse /\ [][NextParse]_vars

-----------------------------------------------------------------------------
(* Claims about parse_pdf_structure (specification SpecParse).             *)

\* the i-th line read, stripped
Read(i) == Strip(consumed[i])

\* the positions of the section-start lines read
StartLines == {i \in 1..Len(consumed) : IsSectionStart(Read(i))}

\* the number of section-start lines among the first i lines read
StartCount(i) == Cardinality({j \in StartLines : j <= i})

\* the position of the k-th section-start line
StartOf(k) == CHOOSE i \in StartLines : StartCount(i) = k

\* the position of the last line of the k-th section
EndOf(k) ==
    IF \E j \in StartLines : j > StartOf(k)
    THEN (CHOOSE j \in StartLines : j > StartOf(k) /\ StartCount(j) = k + 1) - 1
    ELSE Len(consumed)

IsMetaLine(l) ==
    \/ StartsWith(l, S_StartDato)
    \/ StartsWith(l, S_ReturDato)
    \/ StartsWith(l, S_Brukerdager)
    \/ StartsWith(l, S_TotalUtstyr)
    \/ StartsWith(l, S_TotalEksMva)

\* a line no rule above the in_table rule matches
IsPlainLine(l) == ~IsSectionStart(l) /\ ~IsMetaLine(l) /\ ~IsTableHeader(l)

IsRowLine(l) == IsPlainLine(l) /\ Len(SplitMax(l, 2)) = 3

\* the rows the lines read at positions a..b make up: a 3-field line is a row,
\* a shorter plain line extends the name of the row before it
RECURSIVE RowsOf(_, _, _)
RowsOf(acc, a, b) ==
    IF a > b THEN acc
    ELSE IF IsRowLine(Read(a)) THEN RowsOf(Append(acc, SplitMax(Read(a), 2)), a + 1, b)
    ELSE IF IsPlainLine(Read(a)) /\ acc # <<>>
         THEN RowsOf([acc EXCEPT ![Len(acc)][3] = @ \o <<" ">> \o Read(a)], a + 1, b)
    ELSE RowsOf(acc, a + 1, b)

\* a step that hands a line of fewer than 3 fields to the in_table branch
ShortTableLineStep ==
    /\ pc = "parse_loop" /\ pc' = "parse_loop"
    /\ Len(consumed') = Len(consumed) + 1
    /\ in_table
    /\ IsPlainLine(line')
    /\ Len(SplitMax(line', 2)) < 3

\* C6: while a table is open, a line that matches no higher-priority rule and
\* has fewer than 3 fields leaves the number of pending rows unchanged and
\* appends one space and the trimmed line to the third field of the last
\* pending row, every other row and field unchanged; with no pending row
\* nothing changes; stored TableBlocks and sections are never modified.
C6_Continuation ==
    [][ShortTableLineStep =>
        /\ sections' = sections
        /\ current_section' = current_section
        /\ in_table' = in_table
        /\ Len(table_data') = Len(table_data)
        /\ \A i \in 1..Len(table_data) :
            /\ table_data'[i][1] = table_data[i][1]
            /\ table_data'[i][2] = table_data[i][2]
            /\ table_data'[i][3] =
                IF i = Len(table_data)
                THEN table_data[i][3] \o <<" ">> \o line'
                ELSE table_data[i][3]]_vars

\* the row ("1", "2", "Cable") was extended by the line "extra text"
C6_Witness ==
    /\ pc = "parse_loop"
    /\ consumed = <<L_Alpha, L_Header, L_Row1, L_Cont>>
    /\ in_table
    /\ table_data = << <<<<"1">>, <<"2">>, <<"C","a","b","l","e">> \o <<" ">> \o L_Cont>> >>

\* the positions of the table-header lines of the k-th section
HeadersOf(k) == {i \in (StartOf(k) + 1)..EndOf(k) : IsTableHeader(Read(i))}

\* the k-th section has exactly two table headers, each followed by a row
\* before the next header or the section's end
TwoTablesRead(k) ==
    /\ Cardinality(HeadersOf(k)) = 2
    /\ LET h1 == CHOOSE i \in HeadersOf(k) : \A j \in HeadersOf(k) : i <= j
           h2 == CHOOSE i \in HeadersOf(k) : \A j \in HeadersOf(k) : i >= j
       IN  /\ \E i \in (h1 + 1)..(h2 - 1) : IsRowLine(Read(i))
           /\ \E i \in (h2 + 1)..EndOf(k) : IsRowLine(Read(i))

\* C7: a finalized Section read with two table-header lines and rows after
\* each holds two TableBlocks, in order: the rows read between the two
\* headers, and the rows read between the second header and the section's end.
C7_TwoTables ==
    \A k \in 1..Len(sections) :
        (k <= Cardinality(StartLines) /\ TwoTablesRead(k)) =>
            LET h1 == CHOOSE i \in HeadersOf(k) : \A j \in HeadersOf(k) : i <= j
                h2 == CHOOSE i \in HeadersOf(k) : \A j \in HeadersOf(k) : i >= j
            IN  sections[k].tables =
                    <<RowsOf(<<>>, h1 + 1, h2 - 1), RowsOf(<<>>, h2 + 1, EndOf(k))>>

\* a section with two tables of one row each was returned
C7_Witness ==
    /\ pc = "parse_done"
    /\ consumed = <<L_Alpha, L_Header, L_Row1, L_Header, L_RowWide>>
    /\ Len(sections) = 1
    /\ Len(sections[1].tables) = 2
    /\ sections[1].tables[1] # sections[1].tables[2]

\* the Section a section-start line opens, once finalized with nothing set
EmptyClosed(l) == [NewSection(ValueAfter(l, S_JobbNavn)) EXCEPT !.finalized = TRUE]

\* C8: when a section-start line is directly followed by another, the first
\* Section is finalized with empty dates, usage days and totals and no tables
\* (and stays so), and right after the second line the second Section is the
\* open one, with in_table false and no pending rows.
C8_BackToBack ==
    \A i \in 1..(Len(consumed) - 1) :
        (IsSectionStart(Read(i)) /\ IsSectionStart(Read(i + 1))) =>
            /\ StartCount(i) <= Len(sections)
            /\ sections[StartCount(i)] = EmptyClosed(Read(i))
            /\ (i + 1 = Len(consumed) /\ pc = "parse_loop") =>
                /\ Len(sections) = StartCount(i)
                /\ current_section = Some(NewSection(ValueAfter(Read(i + 1), S_JobbNavn)))
                /\ in_table = FALSE
                /\ table_data = <<>>

\* a section was opened, a table started, and two section-start lines followed
C8_Witness ==
    /\ pc = "parse_loop"
    /\ consumed = <<L_Alpha, L_Header, L_Row1, L_Beta, L_Alpha>>
    /\ Len(sections) = 2
    /\ current_section # None

-----------------------------------------------------------------------------
(* parse_pdf_structure on longer documents of sections and tables          *)
(* (specification SpecSections).                                           *)

MaxSectionLines == 6

\* the lines a page can hold
SectionVocab == {L_Alpha, L_Beta, L_Start, L_Header, L_Row1, L_Cont}

\* one iteration of the loops over line_data (the next line of the argument
\* is any line of SectionVocab)
ParseSectionLine ==
    /\ pc = "parse_loop"
    /\ Len(consumed) < MaxSectionLines
    /\ \E raw \in SectionVocab :
        LET st == ParseStep(ParserState, raw)
        IN  /\ consumed' = Append(consumed, raw)
            /\ line' = Strip(raw)
            /\ sections' = st.sections
            /\ current_section' = st.current_section
            /\ in_table' = st.in_table
            /\ table_data' = st.table_data
            /\ accepted' = AcceptedStep(ParserState, accepted, raw)
    /\ UNCHANGED <<pc, lineVars, extractVars, mainVars, err>>

NextSections == ParseSectionLine \/ ParseReturn

SpecSections == InitParse /\ [][NextSections]_vars

\* the number of sections opened so far that are not yet in the list
OpenCount == IF current_section # None THEN 1 ELSE 0

\* the section-start lines read, in the order read
StartLinesRead == SelectSeq(consumed, LAMBDA raw : IsSectionStart(Strip(raw)))

\* C11: the parser holds one Section per section-start line read, in the order
\* the lines appeared: each Section opened is appended to the list exactly once
\* (at the next section-start line or by the last flush), the Section of the
\* last section-start line being the open one until then; after the last flush
\* no section is open and the list has exactly one finalized Section per
\* section-start line.
C11_OneSectionPerStart ==
    LET starts == StartLinesRead
        n == Len(starts)
    IN  /\ Len(sections) + OpenCount = n
        /\ \A k \in 1..Len(sections) :
            /\ sections[k].section_name = ValueAfter(Strip(starts[k]), S_JobbNavn)
            /\ sections[k].finalized
        /\ current_section # None =>
            current_section[1].section_name = ValueAfter(Strip(starts[n]), S_JobbNavn)
        /\ pc = "parse_done" => (Len(sections) = n /\ current_section = None)

\* three section-start lines, the first section with a table, gave three
\* Sections in the order read
C11_Witness ==
    /\ pc = "parse_done"
    /\ consumed = <<L_Alpha, L_Header, L_Row1, L_Beta, L_Alpha>>
    /\ Len(sections) = 3
    /\ sections[1].section_name = <<"A","l","p","h","a">>
    /\ sections[2].section_name = <<"B","e","t","a">>
    /\ sections[3].section_name = <<"A","l","p","h","a">>
    /\ current_section = None

\* the lines ls without those before the first section-start line
RECURSIVE DropBeforeStart(_)
DropBeforeStart(ls) ==
    IF ls = <<>> \/ IsSectionStart(Strip(Head(ls))) THEN ls
    ELSE DropBeforeStart(Tail(ls))

FromFirstStart == DropBeforeStart(consumed)

\* C14: as long as no section-start line has been read, no section is open
\* and every line read (table header, metadata, totals, row-shaped or other)
\* leaves the parser's whole state as it was at the start; so the parser's
\* state, and the Sections returned, are those of a parse of the input without
\* the lines before its first section-start line.
C14_PrefixIgnored ==
    /\ (pc = "parse_loop" /\ FromFirstStart = <<>>) =>
        (ParserState = ParserInit /\ accepted = <<>>)
    /\ pc = "parse_loop" => ParserState = ParseLines(ParserInit, FromFirstStart)
    /\ pc = "parse_done" => sections = ParsePdfStructure(<< <<0, FromFirstStart>> >>)

\* a header, a row and a start date read before the first section-start line
\* left no trace in the Sections returned
C14_Witness ==
    /\ pc = "parse_done"
    /\ consumed = <<L_Header, L_Row1, L_Start, L_Alpha, L_Header, L_Row1>>
    /\ Len(sections) = 1
    /\ sections[1].start_date = <<>>
    /\ sections[1].tables = << <<SplitMax(L_Row1, 2)>> >>

\* a table-header line was read since the last section-start line
HeaderSinceStart ==
    LET n == Cardinality(StartLines)
    IN  n > 0 /\ HeadersOf(n) # {}

\* a step that reads a row-shaped line
RowLineStep ==
    /\ pc = "parse_loop" /\ pc' = "parse_loop"
    /\ Len(consumed') = Len(consumed) + 1
    /\ IsRowLine(line')

\* C18: in every state a table is open only while a section is open, and rows
\* are pending only while a table and a section are open; so a row-shaped
\* line is recorded only if a table-header line was read since the last
\* section-start line: read before that header, also right after the
\* section-start line, it changes nothing.
C18_TableInsideSection ==
    /\ [](/\ in_table => current_section # None
          /\ table_data # <<>> => (in_table /\ current_section # None))
    /\ [][RowLineStep =>
            /\ (table_data' # table_data \/ accepted' # accepted) => HeaderSinceStart
            /\ ~HeaderSinceStart =>
                /\ sections' = sections
                /\ current_section' = current_section
                /\ in_table' = in_table
                /\ table_data' = table_data
                /\ accepted' = accepted]_vars

\* of two equal row-shaped lines, the one read before the table header was
\* ignored and the one read after it is pending
C18_Witness ==
    /\ pc = "parse_loop"
    /\ consumed = <<L_Alpha, L_Row1, L_Header, L_Row1>>
    /\ in_table
    /\ table_data = <<SplitMax(L_Row1, 2)>>
    /\ accepted = <<SplitMax(L_Row1, 2)>>

\* the TableBlocks of the Sections ss, in order
BlocksOf(ss) == Flatten([k \in 1..Len(ss) |-> ss[k].tables])

\* the Sections the parser holds: the finalized ones and the open one
HeldSections ==
    IF current_section # None THEN Append(sections, current_section[1]) ELSE sections

\* one pass over the lines ls that counts, for every section-start line, the
\* table-header lines after which a row-shaped line was read before the next
\* header or section start (blocks), and the row-shaped lines read after a
\* header of their section (rows); "table" tells whether a header was read
\* since the last section-start line and whether a row followed it
RECURSIVE CountTables(_, _)
CountTables(ls, c) ==
    IF ls = <<>> THEN c
    ELSE LET l == Strip(Head(ls))
         IN  CountTables(Tail(ls),
                IF IsSectionStart(l)
                    THEN [c EXCEPT !.blocks = Append(@, 0), !.table = "none"]
                ELSE IF c.blocks = <<>> THEN c
                ELSE IF IsTableHeader(l) /\ ~IsMetaLine(l)
                    THEN [c EXCEPT !.table = "header"]
                ELSE IF IsRowLine(l) /\ c.table = "header"
                    THEN [c EXCEPT !.blocks[Len(c.blocks)] = @ + 1, !.rows = @ + 1,
                                   !.table = "rows"]
                ELSE IF IsRowLine(l) /\ c.table = "rows"
                    THEN [c EXCEPT !.rows = @ + 1]
                ELSE c)

TablesRead == CountTables(consumed, [blocks |-> <<>>, rows |-> 0, table |-> "none"])

\* C19: no Section holds an empty TableBlock and no accepted row is lost: a
\* Section returned has one TableBlock for every table-header line of its
\* that was followed by a row before the next header or the section's end (a
\* header followed directly by a header or by the end adds none), and the rows
\* of all TableBlocks, followed while parsing by the pending rows, are the
\* lines accepted as 3-field rows, one row each.
C19_NoEmptyBlockNoLostRow ==
    LET blocks == BlocksOf(HeldSections)
        read == TablesRead
    IN  /\ \A b \in 1..Len(blocks) : blocks[b] # <<>>
        /\ Flatten(blocks) \o table_data = accepted
        /\ Len(accepted) = read.rows
        /\ pc = "parse_done" =>
            /\ table_data = <<>>
            /\ [k \in 1..Len(sections) |-> Len(sections[k].tables)] = read.blocks

\* a header directly followed by a header, one followed by two rows and one
\* followed by the end gave a single TableBlock of two rows
C19_Witness ==
    /\ pc = "parse_done"
    /\ consumed = <<L_Alpha, L_Header, L_Header, L_Row1, L_Row1, L_Header>>
    /\ Len(sections) = 1
    /\ Len(sections[1].tables) = 1
    /\ Len(sections[1].tables[1]) = 2
    /\ Len(accepted) = 2

-----------------------------------------------------------------------------
(* parse_pdf_structure on documents with metadata and totals lines         *)
(* (specification SpecFields).                                             *)

\* a section-start line and a start-date line in which the marker or prefix
\* text occurs a second time
L_AlphaTwice == L_Alpha \o <<" ">> \o L_Beta
L_StartTwice == L_Start \o <<" ">> \o S_StartDato \o <<" ","0","2">>

MaxFieldLines == 5

\* the lines a page can hold
FieldVocab ==
    {L_Alpha, L_AlphaTwice, L_Start, L_StartTwice, L_Retur, L_Bruker,
     L_TotalU, L_TotalE, L_Header, L_Row1}

\* one iteration of the loops over line_data (the next line of the argument
\* is any line of FieldVocab)
ParseFieldLine ==
    /\ pc = "parse_loop"
    /\ Len(consumed) < MaxFieldLines
    /\ \E raw \in FieldVocab :
        LET st == ParseStep(ParserState, raw)
        IN  /\ consumed' = Append(consumed, raw)
            /\ line' = Strip(raw)
            /\ sections' = st.sections
            /\ current_section' = st.current_section
            /\ in_table' = st.in_table
            /\ table_data' = st.table_data
            /\ accepted' = AcceptedStep(ParserState, accepted, raw)
    /\ UNCHANGED <<pc, lineVars, extractVars, mainVars, err>>

NextFields == ParseFieldLine \/ ParseReturn

SpecFields == InitParse /\ [][NextFields]_vars

\* the rest of a line after its leading prefix, trimmed
RemainderAfter(l, prefix) == Strip(SubSeq(l, Len(prefix) + 1, Len(l)))

\* the loop has just handled the line held in "line"
JustRead == pc = "parse_loop" /\ consumed # <<>>

\* the value the parser holds for the line just read equals v: the name of
\* the Section a section-start line opened, or the field a metadata line set
\* in the open Section
FieldOfLineIs(v(_)) ==
    /\ IsSectionStart(line) =>
        /\ current_section # None
        /\ current_section[1].section_name = v(S_JobbNavn)
    /\ (~IsSectionStart(line) /\ current_section # None) =>
        /\ StartsWith(line, S_StartDato) =>
            current_section[1].start_date = v(S_StartDato)
        /\ StartsWith(line, S_ReturDato) =>
            current_section[1].return_date = v(S_ReturDato)
        /\ StartsWith(line, S_Brukerdager) =>
            current_section[1].brukerdager = v(S_Brukerdager)

\* the text of the prefix occurs in the line only at its start
OccursOnce(l, prefix) == ~Contains(SubSeq(l, 2, Len(l)), prefix)

\* C12: after a line that begins with the section-start marker, the name of
\* the new Section is the rest of the trimmed line after the leading marker,
\* trimmed; after a line that begins with a metadata prefix (Start dato, Retur
\* dato, Brukerdager), the field of the open Section is the rest of the line
\* after the leading prefix, trimmed; also when the marker or prefix text
\* occurs again later in the line (the later occurrence stays in the value).
C12_Remainder ==
    JustRead => FieldOfLineIs(LAMBDA prefix : RemainderAfter(line, prefix))

\* what the code does: every occurrence of the marker or prefix is removed
C12_AllOccurrencesRemoved ==
    JustRead => FieldOfLineIs(LAMBDA prefix : ValueAfter(line, prefix))

\* on lines that hold the marker and the prefixes only at their start, the
\* value is the rest of the line after the leading marker or prefix, trimmed
C12_SingleOccurrence ==
    (/\ JustRead
     /\ \A p \in {S_JobbNavn, S_StartDato, S_ReturDato, S_Brukerdager} :
            StartsWith(line, p) => OccursOnce(line, p))
        => FieldOfLineIs(LAMBDA prefix : RemainderAfter(line, prefix))

\* a step that reads a metadata or totals line while a table is open
MetaInTableStep ==
    /\ pc = "parse_loop" /\ pc' = "parse_loop"
    /\ Len(consumed') = Len(consumed) + 1
    /\ in_table
    /\ IsMetaLine(line')

SectionFields ==
    {"section_name", "start_date", "return_date", "brukerdager", "tables",
     "totals", "finalized"}

\* the field of the Section a metadata or totals line is for
FieldFor(l) ==
    IF StartsWith(l, S_StartDato) THEN "start_date"
    ELSE IF StartsWith(l, S_ReturDato) THEN "return_date"
    ELSE IF StartsWith(l, S_Brukerdager) THEN "brukerdager"
    ELSE "totals"

\* totals t with key k set to v, every other key as before
TotalsWith(t, k, v) ==
    [x \in (DOMAIN t) \cup {k} |-> IF x = k THEN v ELSE t[x]]

\* the open Section holds the value of the line l in the field l is for
FieldHolds(sec, before, l) ==
    /\ StartsWith(l, S_StartDato) => sec.start_date = ValueAfter(l, S_StartDato)
    /\ StartsWith(l, S_ReturDato) => sec.return_date = ValueAfter(l, S_ReturDato)
    /\ StartsWith(l, S_Brukerdager) => sec.brukerdager = ValueAfter(l, S_Brukerdager)
    /\ StartsWith(l, S_TotalUtstyr) =>
        sec.totals = TotalsWith(before.totals, "total_utstyr", ValueAfter(l, S_TotalUtstyr))
    /\ StartsWith(l, S_TotalEksMva) =>
        sec.totals = TotalsWith(before.totals, "total_eks_mva", ValueAfter(l, S_TotalEksMva))

\* the pending rows are the rows read since the last table-header line of the
\* open section, whatever metadata and totals lines were read between them
PendingRowsSinceHeader ==
    (pc = "parse_loop" /\ in_table) =>
        LET n == Cardinality(StartLines)
        IN  /\ n > 0
            /\ HeadersOf(n) # {}
            /\ LET h == CHOOSE i \in HeadersOf(n) : \A j \in HeadersOf(n) : i >= j
               IN  table_data = RowsOf(<<>>, h + 1, Len(consumed))

\* C13: while a table is open, a line that begins with a metadata prefix
\* (Start dato, Retur dato, Brukerdager) or a totals prefix (Total utstyr:,
\* Total eks.mva) sets the field it is for in the open Section to its own
\* value, whatever the field held, and changes nothing else: it is appended
\* neither as a row nor as a continuation, the table stays open and the
\* pending rows stay as they are, so that the rows read after it join the rows
\* read before it.
C13_MetaInTable ==
    /\ []PendingRowsSinceHeader
    /\ [][MetaInTableStep =>
            /\ in_table'
            /\ table_data' = table_data
            /\ accepted' = accepted
            /\ sections' = sections
            /\ current_section # None /\ current_section' # None
            /\ \A f \in SectionFields \ {FieldFor(line')} :
                current_section'[1][f] = current_section[1][f]
            /\ FieldHolds(current_section'[1], current_section[1], line')]_vars

\* a totals line was read between two rows of one table: it set the total
\* and both rows are pending
C13_Witness ==
    /\ pc = "parse_loop"
    /\ consumed = <<L_Alpha, L_Header, L_Row1, L_TotalU, L_Row1>>
    /\ in_table
    /\ Len(table_data) = 2
    /\ current_section # None
    /\ current_section[1].totals = TotalsWith(<<>>, "total_utstyr", <<"1","0","0">>)
    /\ current_section[1].tables = <<>>

-----------------------------------------------------------------------------
(* process_pdf: extract_lines_from_pdf, then parse_pdf_structure           *)
(* (specification SpecProcess).                                            *)

\* the vertical distance between two lines of text on a page
LineSpacing == 12

\* the words of one line of text, all at the vertical offset y
WordsOn(l, y) ==
    LET texts == SplitMax(l, Len(l))
    IN  [i \in 1..Len(texts) |-> W(texts[i], y)]

\* the words of a page that shows the lines ls one below the other
PageOf(ls) == Flatten([i \in 1..Len(ls) |-> WordsOn(ls[i], LineSpacing * i)])

\* pages of a document: a section with the start of its table, more rows of a
\* table, the end of a section and another one, and a page without text
P_Open == PageOf(<<L_Alpha, L_Header, L_Row1>>)
P_Rows == PageOf(<<L_Row2, L_Cont>>)
P_Close == PageOf(<<L_TotalU, L_Beta, L_Header, L_Row3>>)
P_Empty == <<>>

DocPageChoices == {P_Open, P_Rows, P_Close, P_Empty}

InitProcess ==
    /\ pc = "extract_open"
    /\ \E n \in 1..MaxPages : pdf_pages \in [1..n -> DocPageChoices]
    /\ start_page \in (-NegRequest)..MaxRequest
    /\ end_page \in {EndPageUnset} \cup 0..MaxRequest
    /\ page_number = 0
    /\ line_data = <<>>
    /\ IdleLines /\ IdleParse /\ IdleMain
    /\ err = None

\* sections = parse_pdf_structure(line_data); return sections
ParseExtracted ==
    /\ pc = "extract_done"
    /\ sections' = ParsePdfStructure(line_data)
    /\ consumed' = AllLines(line_data)
    /\ accepted' = AcceptedRows(line_data)
    /\ pc' = "process_done"
    /\ UNCHANGED <<line, current_section, in_table, table_data,
                   lineVars, extractVars, mainVars, err>>

NextProcess == NextExtract \/ ParseExtracted

SpecProcess == InitProcess /\ [][NextProcess]_vars

\* the lines of a page-to-lines mapping as one sequence, the pages taken in
\* ascending order of their numbers
RECURSIVE LinesByPage(_)
LinesByPage(d) ==
    IF d = <<>> THEN <<>>
    ELSE LET i == CHOOSE i \in 1..Len(d) : \A j \in 1..Len(d) : d[i][1] <= d[j][1]
         IN  d[i][2] \o LinesByPage(SubSeq(d, 1, i - 1) \o SubSeq(d, i + 1, Len(d)))

\* C15: the mapping extract_lines_from_pdf builds is iterated in ascending
\* order of its page numbers, and the Sections parse_pdf_structure returns for
\* it are those of one pass over the single sequence of lines made of the
\* pages' lines in ascending page order: the open Section, in_table and the
\* pending rows are carried from one page to the next.
C15_PagesAsOneSequence ==
    /\ \A i, j \in 1..Len(line_data) : i < j => line_data[i][1] < line_data[j][1]
    /\ pc = "process_done" =>
        sections = EndCurrentSection(ParseLines(ParserInit, LinesByPage(line_data))).sections

\* a table begun on one page got a row and a continuation from the next page
C15_Witness ==
    /\ pc = "process_done"
    /\ pdf_pages = <<P_Open, P_Rows>>
    /\ line_data = << <<0, <<L_Alpha, L_Header, L_Row1>>>>, <<1, <<L_Row2, L_Cont>>>> >>
    /\ Len(sections) = 1
    /\ sections[1].tables =
        << <<SplitMax(L_Row1, 2),
             <<<<"2">>, <<"1">>, <<"M","i","x","e","r">> \o <<" ">> \o L_Cont>>>> >>

-----------------------------------------------------------------------------
(* main: the output stage                                                  *)

S_Data == <<"_","d","a","t","a">>
S_Csv == <<".","c","s","v">>

\* combined_filename = "combined_data.csv"
S_Combined == <<"c","o","m","b","i","n","e","d","_","d","a","t","a",".","c","s","v">>

\* the header record to_csv writes: columns=["Pos", "Antall", "Navn"]
Header == <<S_Pos, S_Antall, S_Navn>>

\* sanitize_filename(name)
SanitizeFilename(name) ==
    Strip([i \in 1..Len(name) |->
            IF IsAlnum(name[i]) \/ name[i] \in {" ", "_"} THEN name[i] ELSE "_"])

\* sanitize_filename(f"{section['section_name']}_data") + ".csv"
SectionFilename(section) == SanitizeFilename(section.section_name \o S_Data) \o S_Csv

\* pd.concat(section['tables'], ignore_index=True)
SectionRows(section) == Flatten(section.tables)

\* all_tables = [pd.concat(section['tables'], ...) for section in sections if section['tables']]
AllTables(ss) ==
    SelectSeq([i \in 1..Len(ss) |-> SectionRows(ss[i])], LAMBDA t : t # <<>>)

\* the records of file f after section_df.to_csv(f, mode=mode, header=header)
\* with mode = 'a' if file_exists else 'w' and header = not file_exists
SectionFileContent(fs, f, rows) ==
    IF f \in DOMAIN fs THEN fs[f] \o rows ELSE <<Header>> \o rows

\* the combined file opened for appending, like the per-section files
CombinedFileAppended(fs, rows) ==
    IF S_Combined \in DOMAIN fs THEN fs[S_Combined] \o rows ELSE <<Header>> \o rows

\* the records of combined_data.csv after combined_df.to_csv(combined_filename):
\* to_csv's default mode is 'w'
CombinedFileContent(fs, rows) == <<Header>> \o rows

\* the documents process_pdf reads: line_data as extract_lines_from_pdf returns it
L_Combined == S_JobbNavn \o <<" ","c","o","m","b","i","n","e","d">>
L_AlphaSlash == S_JobbNavn \o <<" ","A","l","/","p","h","a">>
L_AlphaUnder == S_JobbNavn \o <<" ","A","l","_","p","h","a">>

D_NoPages == <<>>
D_NoLines == << <<1, <<>>>> >>
D_NoTables == << <<1, <<L_Row1, L_Alpha, L_Start, L_Row2>>>> >>
D_Scenario ==
    << <<1, <<L_Alpha, L_Start, L_Header, L_Row1, L_Row2>>>>,
       <<2, <<L_Beta, L_Header, L_Row3>>>> >>
D_SameName ==
    << <<1, <<L_Alpha, L_Header, L_Row1, L_Cont, L_Header, L_Row2, L_Beta>>>>,
       <<2, <<L_Alpha, L_TotalU, L_Header, L_Row3>>>> >>
D_SameFile ==
    << <<1, <<L_AlphaSlash, L_Header, L_Row1, L_AlphaUnder, L_Header, L_RowWide>>>> >>
D_Combined ==
    << <<1, <<L_Combined, L_Header, L_Row1, L_Beta, L_Header, L_Row2>>>> >>

Documents ==
    {D_NoPages, D_NoLines, D_NoTables, D_Scenario, D_SameName, D_SameFile, D_Combined}

MaxRuns == 2

\* what combined_data.csv can hold before the first run
StaleCombined == <<Header, SplitMax(L_Row3, 2), SplitMax(L_Row3, 2)>>

InitMain ==
    /\ pc = "main_start"
    /\ line_data \in Documents
    /\ files \in {<<>>, S_Combined :> StaleCombined}
    /\ sec_idx = 0
    /\ writes = <<>>
    /\ runs = 1
    /\ pdf_pages = <<>> /\ start_page = 0 /\ end_page = 0 /\ page_number = 0
    /\ IdleLines /\ IdleParse
    /\ err = None

\* sections = process_pdf(...): parse the extracted line_data
ProcessPdf ==
    /\ pc = "main_start"
    /\ sections' = ParsePdfStructure(line_data)
    /\ accepted' = AcceptedRows(line_data)
    /\ sec_idx' = 1
    /\ pc' = "main_sections"
    /\ UNCHANGED <<consumed, line, current_section, in_table, table_data,
                   files, writes, runs, lineVars, extractVars, err>>

\* for section in sections: if section['tables']: ... to_csv(section_filename, ...)
WriteSection ==
    /\ pc = "main_sections"
    /\ sec_idx <= Len(sections)
    /\ sections[sec_idx].tables # <<>>
    /\ LET f == SectionFilename(sections[sec_idx])
           rows == SectionRows(sections[sec_idx])
       IN  /\ files' = (f :> SectionFileContent(files, f, rows)) @@ files
           /\ writes' = Append(writes, <<f, rows>>)
    /\ sec_idx' = sec_idx + 1
    /\ UNCHANGED <<pc, runs, consumed, line, sections, current_section, in_table,
                   table_data, accepted, lineVars, extractVars, err>>

\* for section in sections: a section without tables writes nothing
SkipSection ==
    /\ pc = "main_sections"
    /\ sec_idx <= Len(sections)
    /\ sections[sec_idx].tables = <<>>
    /\ sec_idx' = sec_idx + 1
    /\ UNCHANGED <<pc, files, writes, runs, parseVars, lineVars, extractVars, err>>

\* combined_df = pd.concat(all_tables, ...); combined_df.to_csv(combined_filename, ...)
WriteCombined ==
    /\ pc = "main_sections"
    /\ sec_idx > Len(sections)
    /\ AllTables(sections) # <<>>
    /\ files' = (S_Combined :> CombinedFileContent(files, Flatten(AllTables(sections))))
                    @@ files
    /\ pc' = "main_done"
    /\ UNCHANGED <<sec_idx, writes, runs, parseVars, lineVars, extractVars, err>>

\* pd.concat([]) raises ValueError("No objects to concatenate")
CombineRaises ==
    /\ pc = "main_sections"
    /\ sec_idx > Len(sections)
    /\ AllTables(sections) = <<>>
    /\ err' = Some("ValueError")
    /\ pc' = "main_raised"
    /\ UNCHANGED <<mainVars, parseVars, lineVars, extractVars>>

\* the script is run again in the same directory, on any document
RunAgain ==
    /\ pc \in {"main_done", "main_raised"}
    /\ runs < MaxRuns
    /\ line_data' \in Documents
    /\ runs' = runs + 1
    /\ sections' = <<>>
    /\ accepted' = <<>>
    /\ sec_idx' = 0
    /\ err' = None
    /\ pc' = "main_start"
    /\ UNCHANGED <<files, writes, consumed, line, current_section, in_table, table_data,
                   pdf_pages, start_page, end_page, page_number, lineVars>>

NextMain ==
    ProcessPdf \/ WriteSection \/ SkipSection \/ WriteCombined \/ CombineRaises \/ RunAgain

SpecMain == InitMain /\ [][NextMain]_vars

-----------------------------------------------------------------------------
(* Claims about main (specification SpecMain).                             *)

RunEnded == pc \in {"main_done", "main_raised"}

\* the rows of the writes ws that went to file f, in write order
RECURSIVE RowsWrittenTo(_, _)
RowsWrittenTo(f, ws) ==
    IF ws = <<>> THEN <<>>
    ELSE (IF Head(ws)[1] = f THEN Head(ws)[2] ELSE <<>>) \o RowsWrittenTo(f, Tail(ws))

\* C1: a run of main on a parse result with zero Sections ends without an
\* error, and combined_data.csv is then the empty result: the header alone,
\* or nothing.
C1_EmptyResult ==
    (RunEnded /\ sections = <<>>) =>
        /\ err = None
        /\ pc = "main_done"
        /\ S_Combined \in DOMAIN files
        /\ files[S_Combined] \in {<<>>, <<Header>>}

Row(a, b, c) == <<a, b, c>>

Row_Cable == Row(<<"1">>, <<"2">>, <<"C","a","b","l","e">>)
Row_Mixer == Row(<<"2">>, <<"1">>, <<"M","i","x","e","r">>)
Row_Light == Row(<<"3">>, <<"4">>, <<"L","i","g","h","t">>)

\* C5: the lines of the end-to-end scenario parse into exactly two Sections,
\* Alpha (start_date "01.01.2025", one TableBlock with the rows (1,2,Cable),
\* (2,1,Mixer)) and Beta (one TableBlock with the row (3,4,Light)), and the
\* combined output holds those three rows in that order.
C5_Scenario ==
    (line_data = D_Scenario /\ pc # "main_start") =>
        /\ Len(sections) = 2
        /\ sections[1].section_name = <<"A","l","p","h","a">>
        /\ sections[1].start_date = <<"0","1",".","0","1",".","2","0","2","5">>
        /\ sections[1].tables = << <<Row_Cable, Row_Mixer>> >>
        /\ sections[2].section_name = <<"B","e","t","a">>
        /\ sections[2].tables = << <<Row_Light>> >>
        /\ RunEnded =>
            /\ pc = "main_done"
            /\ files[S_Combined] = <<Header, Row_Cable, Row_Mixer, Row_Light>>

\* the scenario was processed to the end, over a directory that held output
C5_Witness ==
    /\ line_data = D_Scenario
    /\ pc = "main_done"
    /\ runs = 2

\* the names of the files some section was written to
SectionFiles == {writes[i][1] : i \in 1..Len(writes)}

\* C9: at all times every per-section file holds one header, as its first
\* record, followed by the rows of every write to that file, in write order.
C9_SectionFiles ==
    \A f \in SectionFiles :
        /\ f \in DOMAIN files
        /\ files[f] = <<Header>> \o RowsWrittenTo(f, writes)

\* the same, for the per-section files whose name is not that of the combined file
C9_OtherSectionFiles ==
    \A f \in SectionFiles \ {S_Combined} :
        /\ f \in DOMAIN files
        /\ files[f] = <<Header>> \o RowsWrittenTo(f, writes)

\* C10: a run that produced a table ends normally, and combined_data.csv then
\* holds one header followed by the rows of this run alone: section by
\* section, block by block, row by row, which is the order the parser
\* accepted them in; whatever the file held before is gone.
C10_Combined ==
    /\ (RunEnded /\ \E k \in 1..Len(sections) : sections[k].tables # <<>>) =>
        pc = "main_done"
    /\ pc = "main_done" =>
        /\ files[S_Combined] =
            <<Header>> \o Flatten([k \in 1..Len(sections) |-> Flatten(sections[k].tables)])
        /\ files[S_Combined] = <<Header>> \o accepted

\* a second run ended over a combined file that held rows this run did not produce
C10_Witness ==
    /\ pc = "main_done"
    /\ runs = 2
    /\ \E i \in 1..Len(writes) :
        \E r \in 1..Len(writes[i][2]) :
            \A j \in 1..Len(files[S_Combined]) : files[S_Combined][j] # writes[i][2][r]

=============================================================================
